---- MODULE Spec2Model ----
\* Model of genkit/web/handlers.py: the ASGI 404 and health-check handlers and
\* the lifespan handler returned by create_lifespan_handler.
EXTENDS Integers, Sequences, FiniteSets, TLC

\* Number of inbound lifespan messages the host may deliver before it delivers
\* 'lifespan.shutdown'.
MaxMsgs == 3

\* ---------------------------------------------------------------- messages

StartupType == "lifespan.startup"
ShutdownType == "lifespan.shutdown"
\* a message type that matches neither case of the match statement
BogusType == "lifespan.bogus"
Kinds == {StartupType, ShutdownType, BogusType}

\* Exceptions raised by a user callback; str(e) of Exception(*args).
Exceptions == {[args |-> <<"boom">>], [args |-> <<>>]}
\* variant: the failure reason is the exception's class name
StrMut(e) == "Exception"
Str(e) == IF e.args = <<>> THEN "" ELSE e.args[1]

\* Trace of the handler's observable events: what it received, logged,
\* invoked, sent, and raised.  NoMsg marks an event without message text.
NoMsg == "<none>"
Ev(k, v, m) == [k |-> k, v |-> v, m |-> m]
RecvEv(kind) == Ev("recv", kind, NoMsg)
LogEv(level, text) == Ev("log", level, text)
InvokeEv(cb) == Ev("invoke", cb, NoMsg)
CbOkEv(cb) == Ev("cb_ok", cb, NoMsg)
CbRaiseEv(cb, s) == Ev("cb_raise", cb, s)
SendEv(type, m) == Ev("send", type, m)
RaiseEv(s) == Ev("raise", "TypeError", s)

VARIABLES
    beginCfg,        \* on_lifespan_begin: "none" or "some"
    endCfg,          \* on_lifespan_end: "none" or "some"
    errorAwaitable,  \* whether the configured logger's error() returns an awaitable
    lsPc,            \* "recv" (awaiting receive), "begin_cb", "end_cb", "exit"
    outcome,         \* "running", "returned", "raised"
    nrecv,           \* number of messages received
    trace,           \* sequence of events
    nfOut,           \* events sent by handle_not_found (<<>> if not invoked)
    hcOut,           \* events sent by handle_health_check
    nfScope,
    hcScope

vars == <<beginCfg, endCfg, errorAwaitable, lsPc, outcome, nrecv, trace,
          nfOut, hcOut, nfScope, hcScope>>
lsVars == <<beginCfg, endCfg, errorAwaitable, lsPc, outcome, nrecv, trace>>
httpVars == <<nfOut, hcOut, nfScope, hcScope>>

Scopes == {[type |-> "http", method |-> "GET", path |-> "/missing"],
           [type |-> "http", method |-> "POST", path |-> "/api/x"]}
NoScope == [type |-> "none"]

Init ==
    /\ beginCfg \in {"none", "some"}
    /\ endCfg \in {"none", "some"}
    \* structlog's default bound logger has a synchronous error() returning
    \* None; an async-configured logger (AsyncBoundLogger) returns a coroutine.
    /\ errorAwaitable \in BOOLEAN
    /\ lsPc = "recv"
    /\ outcome = "running"
    /\ nrecv = 0
    /\ trace = <<>>
    /\ nfOut = <<>>
    /\ hcOut = <<>>
    /\ nfScope = NoScope
    /\ hcScope = NoScope

\* ------------------------------------------------------ lifespan handler

\* variant: no acknowledgement of a startup without a callback
OnStartupMut(kind) ==
    IF beginCfg = "some"
    THEN /\ trace' = trace \o <<RecvEv(kind), LogEv("info", "lifespan startup"),
                               InvokeEv("begin")>>
         /\ lsPc' = "begin_cb"
         /\ UNCHANGED outcome
    ELSE /\ trace' = Append(trace, RecvEv(kind))
         /\ lsPc' = "recv"
         /\ UNCHANGED outcome

\* case 'lifespan.startup' up to the next await that suspends on user code
OnStartup(kind) ==
    IF beginCfg = "some"
    THEN /\ trace' = trace \o <<RecvEv(kind), LogEv("info", "lifespan startup"),
                               InvokeEv("begin")>>
         /\ lsPc' = "begin_cb"
         /\ UNCHANGED outcome
    ELSE /\ trace' = trace \o <<RecvEv(kind), SendEv("lifespan.startup.complete", NoMsg)>>
         /\ lsPc' = "recv"
         /\ UNCHANGED outcome

\* variant: shutdown is always acknowledged
OnShutdownAckMut(kind) ==
    IF endCfg = "some"
    THEN /\ trace' = trace \o <<RecvEv(kind), LogEv("info", "lifespan shutdown"),
                               InvokeEv("end")>>
         /\ lsPc' = "end_cb"
         /\ UNCHANGED outcome
    ELSE /\ trace' = trace \o <<RecvEv(kind), SendEv("lifespan.shutdown.complete", NoMsg)>>
         /\ lsPc' = "exit"
         /\ outcome' = "returned"

\* variant: a shutdown without callback does not leave the loop
OnShutdownLoopMut(kind) ==
    IF endCfg = "some"
    THEN /\ trace' = trace \o <<RecvEv(kind), LogEv("info", "lifespan shutdown"),
                               InvokeEv("end")>>
         /\ lsPc' = "end_cb"
         /\ UNCHANGED outcome
    ELSE /\ trace' = Append(trace, RecvEv(kind))
         /\ lsPc' = "recv"
         /\ UNCHANGED outcome

\* case 'lifespan.shutdown'
OnShutdown(kind) ==
    IF endCfg = "some"
    THEN /\ trace' = trace \o <<RecvEv(kind), LogEv("info", "lifespan shutdown"),
                               InvokeEv("end")>>
         /\ lsPc' = "end_cb"
         /\ UNCHANGED outcome
    ELSE /\ trace' = Append(trace, RecvEv(kind))
         /\ lsPc' = "exit"
         /\ outcome' = "returned"

\* case _: `await logger.error(...)`; logger.error logs synchronously, then
\* awaiting its result raises TypeError when it is None.
OnOther(kind) ==
    LET text == "Unsupported message type: " \o kind IN
    IF errorAwaitable
    THEN /\ trace' = trace \o <<RecvEv(kind), LogEv("error", text),
                               SendEv("lifespan.startup.complete", NoMsg)>>
         /\ lsPc' = "exit"
         /\ outcome' = "returned"
    ELSE /\ trace' = trace \o <<RecvEv(kind), LogEv("error", text),
                               RaiseEv("object NoneType can't be used in 'await' expression")>>
         /\ lsPc' = "exit"
         /\ outcome' = "raised"

\* message = await receive(); match message['type']
Receive ==
    /\ lsPc = "recv"
    /\ \E kind \in Kinds :
        /\ nrecv < MaxMsgs \/ kind = ShutdownType
        /\ nrecv' = nrecv + 1
        /\ CASE kind = StartupType -> OnStartup(kind)
             [] kind = ShutdownType -> OnShutdown(kind)
             [] OTHER -> OnOther(kind)
    /\ UNCHANGED <<beginCfg, endCfg, errorAwaitable>>
    /\ UNCHANGED httpVars

\* variant: the startup acknowledgement after the callback is lost
BeginReturnMut ==
    /\ lsPc = "begin_cb"
    /\ trace' = Append(trace, CbOkEv("begin"))
    /\ lsPc' = "recv"
    /\ UNCHANGED <<beginCfg, endCfg, errorAwaitable, outcome, nrecv>>
    /\ UNCHANGED httpVars

\* await on_lifespan_begin(...) returns; then send startup.complete
BeginReturn ==
    /\ lsPc = "begin_cb"
    /\ trace' = trace \o <<CbOkEv("begin"), SendEv("lifespan.startup.complete", NoMsg)>>
    /\ lsPc' = "recv"
    /\ UNCHANGED <<beginCfg, endCfg, errorAwaitable, outcome, nrecv>>
    /\ UNCHANGED httpVars

\* variant: the loop continues after a startup failure (missing return)
BeginRaiseMut ==
    /\ lsPc = "begin_cb"
    /\ \E e \in Exceptions :
        trace' = trace \o <<CbRaiseEv("begin", e.args),
                            LogEv("error", "lifespan startup failed"),
                            SendEv("lifespan.startup.failed", Str(e))>>
    /\ lsPc' = "recv"
    /\ UNCHANGED <<beginCfg, endCfg, errorAwaitable, outcome, nrecv>>
    /\ UNCHANGED httpVars

\* on_lifespan_begin raises e: log, send startup.failed{str(e)}, return
BeginRaise ==
    /\ lsPc = "begin_cb"
    /\ \E e \in Exceptions :
        trace' = trace \o <<CbRaiseEv("begin", e.args),
                            LogEv("error", "lifespan startup failed"),
                            SendEv("lifespan.startup.failed", Str(e))>>
    /\ lsPc' = "exit"
    /\ outcome' = "returned"
    /\ UNCHANGED <<beginCfg, endCfg, errorAwaitable, nrecv>>
    /\ UNCHANGED httpVars

\* variant: shutdown.complete sent before the callback runs
EndReturnMut ==
    /\ lsPc = "end_cb"
    /\ trace' = trace \o <<CbOkEv("end")>>
    /\ lsPc' = "exit"
    /\ outcome' = "returned"
    /\ UNCHANGED <<beginCfg, endCfg, errorAwaitable, nrecv>>
    /\ UNCHANGED httpVars

\* await on_lifespan_end(...) returns; send shutdown.complete; return
EndReturn ==
    /\ lsPc = "end_cb"
    /\ trace' = trace \o <<CbOkEv("end"), SendEv("lifespan.shutdown.complete", NoMsg)>>
    /\ lsPc' = "exit"
    /\ outcome' = "returned"
    /\ UNCHANGED <<beginCfg, endCfg, errorAwaitable, nrecv>>
    /\ UNCHANGED httpVars

\* variant: shutdown failure reported as completion
EndRaiseMut ==
    /\ lsPc = "end_cb"
    /\ \E e \in Exceptions :
        trace' = trace \o <<CbRaiseEv("end", e.args),
                            LogEv("error", "lifespan shutdown failed"),
                            SendEv("lifespan.shutdown.complete", NoMsg)>>
    /\ lsPc' = "exit"
    /\ outcome' = "returned"
    /\ UNCHANGED <<beginCfg, endCfg, errorAwaitable, nrecv>>
    /\ UNCHANGED httpVars

\* on_lifespan_end raises e: log, send shutdown.failed{str(e)}, return
EndRaise ==
    /\ lsPc = "end_cb"
    /\ \E e \in Exceptions :
        trace' = trace \o <<CbRaiseEv("end", e.args),
                            LogEv("error", "lifespan shutdown failed"),
                            SendEv("lifespan.shutdown.failed", Str(e))>>
    /\ lsPc' = "exit"
    /\ outcome' = "returned"
    /\ UNCHANGED <<beginCfg, endCfg, errorAwaitable, nrecv>>
    /\ UNCHANGED httpVars

\* ---------------------------------------------------------- HTTP handlers

JsonHeaders == <<<<"content-type", "application/json">>>>

\* variant: wrong status code
HandleNotFoundMut ==
    /\ nfOut = <<>>
    /\ \E s \in Scopes :
        /\ nfScope' = s
        /\ nfOut' = <<[type |-> "http.response.start", status |-> 400,
                       headers |-> JsonHeaders],
                      [type |-> "http.response.body",
                       body |-> "{\"error\": \"Not Found\"}"]>>
    /\ UNCHANGED <<hcOut, hcScope>>
    /\ UNCHANGED lsVars

HandleNotFound ==
    /\ nfOut = <<>>
    /\ \E s \in Scopes :
        /\ nfScope' = s
        /\ nfOut' = <<[type |-> "http.response.start", status |-> 404,
                       headers |-> JsonHeaders],
                      [type |-> "http.response.body",
                       body |-> "{\"error\": \"Not Found\"}"]>>
    /\ UNCHANGED <<hcOut, hcScope>>
    /\ UNCHANGED lsVars

HandleHealthCheck ==
    /\ hcOut = <<>>
    /\ \E s \in Scopes :
        /\ hcScope' = s
        /\ hcOut' = <<[type |-> "http.response.start", status |-> 200,
                       headers |-> JsonHeaders],
                      [type |-> "http.response.body",
                       body |-> "{\"status\": \"ok\"}"]>>
    /\ UNCHANGED <<nfOut, nfScope>>
    /\ UNCHANGED lsVars

Next ==
    \/ Receive
    \/ BeginReturn
    \/ BeginRaise
    \/ EndReturn
    \/ EndRaise
    \/ HandleNotFound
    \/ HandleHealthCheck

Spec == Init /\ [][Next]_vars

\* Fairness the code's scheduling justifies: the handler resumes whenever it
\* can, the host eventually delivers a message (after MaxMsgs messages it
\* delivers 'lifespan.shutdown'), and every awaited callback eventually returns
\* or raises.
LiveSpec == Spec /\ WF_vars(Receive) /\ WF_vars(BeginReturn \/ BeginRaise)
                 /\ WF_vars(EndReturn \/ EndRaise)

\* ------------------------------------------------------ trace analysis

RecvIdx == {i \in 1..Len(trace) : trace[i].k = "recv"}
\* index of the next receive after i, or Len(trace) + 1
NextRecv(i) ==
    LET later == {j \in RecvIdx : j > i} IN
    IF later = {} THEN Len(trace) + 1
    ELSE CHOOSE j \in later : \A j2 \in later : j <= j2
\* events the handler produced in reaction to the message received at i
Seg(i) == SubSeq(trace, i + 1, NextRecv(i) - 1)
IsLastRecv(i) == NextRecv(i) = Len(trace) + 1
\* the reaction to message i is over: another message was received after it,
\* or the handler is not suspended in a callback
SegClosed(i) == ~IsLastRecv(i) \/ lsPc \in {"recv", "exit"}
Sends(sq) == SelectSeq(sq, LAMBDA e : e.k = "send")
HasKind(sq, k) == \E n \in 1..Len(sq) : sq[n].k = k
Finished == outcome # "running"

RaisedArgs(sq) == sq[CHOOSE n \in 1..Len(sq) : sq[n].k = "cb_raise"].m
StartupComplete == SendEv("lifespan.startup.complete", NoMsg)

\* C1: a 'lifespan.startup' with no on-begin callback, or whose callback returns
\* normally, gets exactly one reply 'lifespan.startup.complete' and the loop goes
\* on awaiting the next message.
C1_StartupAck ==
    \A i \in RecvIdx :
        (trace[i].v = StartupType /\ SegClosed(i) /\ ~HasKind(Seg(i), "cb_raise"))
            => /\ Sends(Seg(i)) = <<StartupComplete>>
               /\ (~IsLastRecv(i) \/ lsPc = "recv")

C1_Witness ==
    \E i \in RecvIdx : trace[i].v = StartupType /\ HasKind(Seg(i), "cb_ok")
                       /\ ~IsLastRecv(i)

\* C2: when the on-begin callback raises e, exactly one reply
\* 'lifespan.startup.failed' with message str(e) is sent, no startup.complete,
\* and the loop exits with no further replies.
C2_StartupFailed ==
    \A i \in RecvIdx :
        (trace[i].v = StartupType /\ HasKind(Seg(i), "cb_raise"))
            => LET a == RaisedArgs(Seg(i)) IN
               /\ Sends(Seg(i)) = <<SendEv("lifespan.startup.failed",
                                           IF a = <<>> THEN "" ELSE a[1])>>
               /\ IsLastRecv(i)
               /\ lsPc = "exit" /\ outcome = "returned"

C2_Witness ==
    \E i \in RecvIdx : trace[i].v = StartupType /\ HasKind(Seg(i), "cb_raise")
                       /\ RaisedArgs(Seg(i)) = <<"boom">>

\* C3: a 'lifespan.shutdown' whose on-end callback returns normally yields, in
\* order, the callback invocation and then 'lifespan.shutdown.complete'; then
\* the loop exits and nothing more is received or sent.
C3_ShutdownComplete ==
    \A i \in RecvIdx :
        (trace[i].v = ShutdownType /\ HasKind(Seg(i), "cb_ok"))
            => /\ SelectSeq(Seg(i), LAMBDA e : e.k \in {"invoke", "send"})
                    = <<InvokeEv("end"), SendEv("lifespan.shutdown.complete", NoMsg)>>
               /\ IsLastRecv(i)
               /\ lsPc = "exit" /\ outcome = "returned"

C3_Witness ==
    \E i \in RecvIdx : trace[i].v = ShutdownType /\ HasKind(Seg(i), "cb_ok")

\* C4: a 'lifespan.shutdown' with no on-end callback sends nothing and the loop
\* exits.
C4_ShutdownSilent ==
    \A i \in RecvIdx :
        (trace[i].v = ShutdownType /\ endCfg = "none")
            => /\ Sends(Seg(i)) = <<>>
               /\ IsLastRecv(i)
               /\ lsPc = "exit" /\ outcome = "returned"

C4_Witness ==
    \E i \in RecvIdx : trace[i].v = ShutdownType /\ endCfg = "none" /\ i > 1

\* C5: when the on-end callback raises e, exactly one reply
\* 'lifespan.shutdown.failed' with message str(e) is sent, no shutdown.complete,
\* and the loop exits.
C5_ShutdownFailed ==
    \A i \in RecvIdx :
        (trace[i].v = ShutdownType /\ HasKind(Seg(i), "cb_raise"))
            => LET a == RaisedArgs(Seg(i)) IN
               /\ Sends(Seg(i)) = <<SendEv("lifespan.shutdown.failed",
                                           IF a = <<>> THEN "" ELSE a[1])>>
               /\ IsLastRecv(i)
               /\ lsPc = "exit" /\ outcome = "returned"

C5_Witness ==
    \E i \in RecvIdx : trace[i].v = ShutdownType /\ HasKind(Seg(i), "cb_raise")

\* C6: an unrecognized message type is logged as an error, a best-effort
\* 'lifespan.startup.complete' is sent, and the handler returns without an
\* exception escaping.
C6_UnrecognizedExit ==
    \A i \in RecvIdx :
        (trace[i].v = BogusType /\ SegClosed(i))
            => /\ HasKind(Seg(i), "log")
               /\ Sends(Seg(i)) = <<StartupComplete>>
               /\ outcome = "returned"

\* C7: every received message gets exactly one reply (never zero, never two),
\* the documented exceptions being a shutdown with no on-end callback (no reply,
\* spec section 4.1) and an unrecognized message kind, which ends the loop
\* after sending 'lifespan.startup.complete'.
C7_OneReplyPerMessage ==
    \A i \in RecvIdx :
        SegClosed(i) =>
            \/ /\ trace[i].v \in {StartupType, ShutdownType}
               /\ Len(Sends(Seg(i))) = 1
            \/ /\ trace[i].v = ShutdownType /\ endCfg = "none" /\ IsLastRecv(i)
               /\ Sends(Seg(i)) = <<>>
            \/ /\ trace[i].v = BogusType /\ IsLastRecv(i)
               /\ Sends(Seg(i)) = <<StartupComplete>>

\* C8 (as stated): a shutdown is never handled before a startup, and a second
\* startup is never acknowledged as complete.
C8_StartupBeforeShutdown ==
    /\ \A i \in RecvIdx :
         trace[i].v = ShutdownType => \E j \in RecvIdx : j < i /\ trace[j].v = StartupType
    /\ \A i, j \in RecvIdx :
         (i < j /\ trace[i].v = StartupType /\ trace[j].v = StartupType)
            => ~\E n \in 1..Len(Seg(j)) : Seg(j)[n] = StartupComplete

\* C8 (amended): at most one shutdown is handled: no message is received
\* after it, and once its handling is over the handler has finished.
C8_SingleShutdownLast ==
    \A i \in RecvIdx :
        trace[i].v = ShutdownType => /\ IsLastRecv(i)
                                     /\ (SegClosed(i) => Finished)

C8_Witness ==
    \E i, j, k \in RecvIdx :
        /\ i < j /\ j < k
        /\ trace[i].v = StartupType /\ trace[j].v = StartupType
        /\ trace[k].v = ShutdownType

\* C9: handle_not_found / handle_health_check send exactly http.response.start
\* (404 / 200, single content-type: application/json header) followed by
\* http.response.body with the exact JSON bytes, whatever the scope.
C9_FixedResponses ==
    /\ nfOut # <<>> =>
         nfOut = <<[type |-> "http.response.start", status |-> 404,
                    headers |-> <<<<"content-type", "application/json">>>>],
                   [type |-> "http.response.body",
                    body |-> "{\"error\": \"Not Found\"}"]>>
    /\ hcOut # <<>> =>
         hcOut = <<[type |-> "http.response.start", status |-> 200,
                    headers |-> <<<<"content-type", "application/json">>>>],
                   [type |-> "http.response.body",
                    body |-> "{\"status\": \"ok\"}"]>>

C9_Witness == nfOut # <<>> /\ hcOut # <<>> /\ nfScope # hcScope

\* C10: the handler finishes exactly when it has handled a shutdown or an
\* unrecognized message or a callback failed; under fairness (host eventually
\* delivers shutdown, callbacks eventually return or raise) it eventually
\* finishes, and afterwards it neither receives nor sends.
C10_Iff ==
    Finished <=> \/ \E i \in RecvIdx : trace[i].v \in {ShutdownType, BogusType}
                                        /\ SegClosed(i)
                 \/ HasKind(trace, "cb_raise")

C10_Termination ==
    /\ []C10_Iff
    /\ <>Finished
    /\ [][Finished => UNCHANGED <<trace, nrecv, lsPc>>]_vars

C10_Witness == Finished /\ nrecv >= 2

====
